---- MODULE Spec2Model ----
(***************************************************************************)
(* Block-synchronised relay auction pipeline of blob-preconfs.             *)
(*                                                                         *)
(*   pkg/listener/listener.go : Listener (block monitor, block processor,  *)
(*                              FacilitateRelayAuction, SubmitBid,         *)
(*                              GetCurrentBid)                             *)
(*   pkg/auction  (bid file)  : SignedBid, Verify, getDataHash             *)
(*   pkg/auction  RelayAuction: not part of the sources at hand; its round *)
(*                              (StartAsync, SubmitBid, GetCurrentBid) is  *)
(*                              modelled from the specification text.      *)
(*                                                                         *)
(* Three tasks run concurrently: the monitor (listenForBlocks), the block  *)
(* processor (processNewBlocks, which runs FacilitateRelayAuction inline)  *)
(* and the callers of SubmitBid.  The environment supplies the heights,    *)
(* cancels the context, lets the round's deadline and the watchdog elapse  *)
(* and receives from AuctionWonChan.                                       *)
(*                                                                         *)
(*   Spec      the pipeline, each SubmitBid call taken as one step         *)
(*   FairSpec  Spec with a fair scheduler, ticker and consumer             *)
(*   RaceSpec  the pipeline with SubmitBid and GetCurrentBid taken         *)
(*             statement by statement                                      *)
(*   CodecSpec the pure functions of the bid codec applied to inputs       *)
(***************************************************************************)
EXTENDS Integers, Sequences, FiniteSets, TLC

\* ------------------------------------------------------------------ bounds
MaxHeight == 2
MaxPolls == 3
MaxSubmits == 2
MaxClosedRecv == 1
\* stand-in for 2^64, the width of uint64 (TLC integers are 32 bit wide)
WordMod == 16

Heights == 0..MaxHeight

\* ------------------------------------------------------- bids (SignedBid)
ZeroAddr == 0
GarbageAddr == 999
NoBlock == -1
\* a nil *big.Int (a field that was never set)
NilInt == -99999

PubkeyToAddress(key) == 100 + key

\* the relay registry: the addresses of keys 1 and 2 are whitelisted
Registry == {PubkeyToAddress(1), PubkeyToAddress(2)}

RECURSIVE DecStr(_)
\* big.Int.String(): decimal digits, most significant first; 10 stands for '-'
\* and 11 for the text "<nil>" of a nil pointer
DecStr(n) ==
    IF n = NilInt THEN <<11>>
    ELSE IF n < 0 THEN <<10>> \o DecStr(-n)
    ELSE IF n < 10 THEN <<n>>
    ELSE DecStr(n \div 10) \o <<n % 10>>

\* fmt.Sprintf("%s%s", amountWei.String(), l1Block.String()), then Keccak256
\* (the hash is taken to be collision free: the digest is the pre-hash string)
getDataHash(amountWei, l1Block) == DecStr(amountWei) \o DecStr(l1Block)

\* crypto.Sign: an ideal recoverable signature remembers key and digest
Sign(hash, key) == [key |-> key, hash |-> hash]

NoSignature == [key |-> 0, hash |-> <<>>]

\* crypto.SigToPub followed by crypto.PubkeyToAddress: the signer's address
\* when the digest is the signed one, an unrelated address otherwise, and
\* ZeroAddr (with an error) for a malformed signature
SigToAddr(hash, sig) ==
    IF sig.key = 0 THEN ZeroAddr
    ELSE IF sig.hash = hash THEN PubkeyToAddress(sig.key)
    ELSE GarbageAddr

SigToPubFails(sig) == sig.key = 0

\* SignedBid{} : the zero value, also the no-winner sentinel
ZeroBid == [amountWei |-> NilInt, l1Block |-> NilInt, address |-> ZeroAddr, signature |-> NoSignature]

CreateSignedBid(amountWei, l1Block, key) ==
    LET hash == getDataHash(amountWei, l1Block)
        signature == Sign(hash, key)
    IN  [amountWei |-> amountWei, l1Block |-> l1Block,
         address |-> SigToAddr(hash, signature), signature |-> signature]

\* variant: the digest is recomputed with its arguments exchanged
VerifySwapped(b) ==
    LET hash == getDataHash(b.l1Block, b.amountWei)
    IN  IF SigToPubFails(b.signature) THEN FALSE
        ELSE SigToAddr(hash, b.signature) = b.address

Verify(b) ==
    LET hash == getDataHash(b.amountWei, b.l1Block)
    IN  IF SigToPubFails(b.signature) THEN FALSE
        ELSE SigToAddr(hash, b.signature) = b.address

\* a bid that declares another bidder than the one that signed it
ForgedBid(amountWei, l1Block, key, claimed) ==
    [CreateSignedBid(amountWei, l1Block, key) EXCEPT !.address = PubkeyToAddress(claimed)]

\* big.Int.Uint64(): the low 64 bits of the absolute value
Uint64(x) == (IF x < 0 THEN -x ELSE x) % WordMod

\* ------------------------------------------------------ wire format (JSON)
AddressLength == 20
SignatureLength == 65

\* a field of the JSON object: absent, or present with its text
Missing == [kind |-> "missing", v |-> 0, len |-> 0]
NumField(n) == [kind |-> "num", v |-> n, len |-> 0]
BadNumField == [kind |-> "bad", v |-> 0, len |-> 0]
HexField(v, len) == [kind |-> "hex", v |-> v, len |-> len]

\* json.Marshal of a SignedBid
EncodeSignedBid(b) ==
    [amountWei |-> NumField(b.amountWei), l1Block |-> NumField(b.l1Block),
     address |-> HexField(b.address, AddressLength),
     signature |-> HexField(b.signature, SignatureLength)]

\* big.Int.UnmarshalJSON: any decimal integer, negative ones too; an absent
\* field leaves the pointer nil
DecodeInt(f) == IF f.kind = "num" THEN f.v ELSE NilInt

\* hexutil.Bytes.UnmarshalJSON: hex text of any length; bytes that are not a
\* 65 byte signature cannot be recovered from
DecodeSignature(f) ==
    IF f.kind = "missing" THEN NoSignature
    ELSE IF f.len = SignatureLength THEN f.v
    ELSE [key |-> 0, hash |-> f.v.hash]

\* common.Address.UnmarshalJSON: hex text of exactly 20 bytes
DecodeAddress(f) == IF f.kind = "missing" THEN ZeroAddr ELSE f.v

\* json.Unmarshal fails: a number that does not parse, an address of the
\* wrong length
DecodeFails(w) ==
    \/ w.amountWei.kind = "bad"
    \/ w.l1Block.kind = "bad"
    \/ (w.address.kind = "hex" /\ w.address.len # AddressLength)

DecodeSignedBid(w) ==
    IF DecodeFails(w)
    THEN [err |-> TRUE, bid |-> ZeroBid]
    ELSE [err |-> FALSE,
          bid |-> [amountWei |-> DecodeInt(w.amountWei), l1Block |-> DecodeInt(w.l1Block),
                   address |-> DecodeAddress(w.address),
                   signature |-> DecodeSignature(w.signature)]]

\* crypto.Sign fails on a key that is not a valid private key
SignFails(key) == key = 0

\* ------------------------------------------------------- bids of the callers
Amounts == {5, 9}

\* what DecodeSignedBid returns for a record that lacks its l1Block
PartialBid ==
    DecodeSignedBid([EncodeSignedBid(CreateSignedBid(9, 0, 1)) EXCEPT !.l1Block = Missing]).bid

\* well-signed bids of a whitelisted relay whose l1Block is negative or
\* beyond the range of uint64
OutOfRangeBids == {CreateSignedBid(9, -1, 1), CreateSignedBid(9, WordMod + 1, 1)}

\* the bids callers submit: well-formed bids of the two whitelisted relays,
\* a well-formed bid of a relay that is not whitelisted, a forged bid, a
\* decoded bid without block and bids with a block out of range
Bids ==
    {CreateSignedBid(a, h, k) : a \in Amounts, h \in Heights, k \in {1, 2}}
    \cup {CreateSignedBid(9, h, 3) : h \in Heights}
    \cup {ForgedBid(9, h, 3, 1) : h \in Heights}
    \cup {PartialBid}
    \cup OutOfRangeBids

\* -------------------------------------------------- inputs of the bid codec
DigestMaxAmount == 12
DigestMaxBlock == 23
MaxKey == 3

WireNums == {Missing, BadNumField, NumField(-1), NumField(5)}
WireAddrs == {Missing, HexField(PubkeyToAddress(1), AddressLength),
              HexField(PubkeyToAddress(1), AddressLength - 1)}
WireSigs == {Missing, HexField(Sign(getDataHash(5, 5), 1), SignatureLength),
             HexField(Sign(getDataHash(5, 5), 1), SignatureLength - 1)}
Wires == [amountWei : WireNums, l1Block : WireNums, address : WireAddrs, signature : WireSigs]

\* ------------------------------------------------------------------ state
VARIABLES
    cancelled,          \* ctx of Start has been cancelled
    exited,             \* the process has ended (os.Exit(1) or a panic)
    fatal,              \* why the process ended: none, timeout, blocknum, panic
    monPc,              \* listenForBlocks: select, send, assign, done
    newBlockNum,        \* listenForBlocks: local newBlockNum
    currentBlockNum,    \* Listener.currentBlockNum
    polls,              \* heights returned by MustGetBlockNum so far
    events,             \* values the monitor has put up for sending on NewBlockChan
    delivered,          \* how many of them the processor has received
    doneChanCloses,     \* number of close(l.DoneChan)
    newBlockChanCloses, \* number of close(l.NewBlockChan)
    procPc,             \* processNewBlocks: select, wait, forward, done
    currentAuction,     \* Listener.currentAuction: nil or round
    liveRounds,         \* FacilitateRelayAuction calls that have not returned
    closedRecvs,        \* receives from the closed NewBlockChan
    roundBlock,         \* block carried by the event that started the round
    roundState,         \* the round: none, open, closed
    bestBid,            \* the round's bestBid
    accepted,           \* bids the round has accepted, in order
    auctionResultChan,  \* result handle of the round
    bid,                \* FacilitateRelayAuction: local bid
    roundSent,          \* bids sent on AuctionWonChan for the round
    roundOutcome,       \* none, running, nowinner, won, timeout
    lastSubmit,         \* the last SubmitBid call and what it returned
    nSubmits,
    callPc,             \* a SubmitBid call in steps: idle, checkBlock, call
    callBid,            \* its argument
    getPc,              \* a GetCurrentBid call in steps: idle, call
    nilCall,            \* a method has been called through a nil currentAuction
    codecPc,            \* bid codec: off, input, done
    codecIn,            \* the operation applied and its arguments
    codecOut            \* its result

monVars == <<monPc, newBlockNum, currentBlockNum, polls, events, doneChanCloses, newBlockChanCloses>>
roundVars == <<roundBlock, roundState, bestBid, accepted, auctionResultChan, bid, roundSent, roundOutcome>>
procVars == <<procPc, currentAuction, liveRounds, closedRecvs>>
callVars == <<lastSubmit, nSubmits>>
stepVars == <<callPc, callBid, getPc, nilCall>>
codecVars == <<codecPc, codecIn, codecOut>>
vars == <<cancelled, exited, fatal, delivered, monVars, procVars, roundVars, callVars,
          stepVars, codecVars>>

NoSubmit ==
    [bid |-> ZeroBid, res |-> "none", live |-> FALSE, state |-> "none",
     roundBlock |-> NoBlock, curBlock |-> 0, changed |-> FALSE]

\* NewListener followed by Start
ListenerInit ==
    /\ cancelled = FALSE
    /\ exited = FALSE
    /\ fatal = "none"
    /\ monPc = "select"
    /\ newBlockNum = 0
    /\ currentBlockNum = 0
    /\ polls = <<>>
    /\ events = <<>>
    /\ delivered = 0
    /\ doneChanCloses = 0
    /\ newBlockChanCloses = 0
    /\ procPc = "select"
    /\ currentAuction = "nil"
    /\ liveRounds = 0
    /\ closedRecvs = 0
    /\ roundBlock = NoBlock
    /\ roundState = "none"
    /\ bestBid = ZeroBid
    /\ accepted = <<>>
    /\ auctionResultChan = <<>>
    /\ bid = ZeroBid
    /\ roundSent = <<>>
    /\ roundOutcome = "none"
    /\ lastSubmit = NoSubmit
    /\ nSubmits = 0
    /\ callPc = "idle"
    /\ callBid = ZeroBid
    /\ getPc = "idle"
    /\ nilCall = FALSE

NoCodec == [op |-> "none"]

Init ==
    /\ ListenerInit
    /\ codecPc = "off"
    /\ codecIn = NoCodec
    /\ codecOut = NoCodec

\* ---------------------------------------------------------------- monitor
\* variant: an event for every poll that differs from the last height
MonTickOnChange(h) ==
    /\ ~exited
    /\ UNCHANGED <<stepVars, codecVars>>
    /\ monPc = "select"
    /\ Len(polls) < MaxPolls
    /\ polls' = Append(polls, h)
    /\ IF h # currentBlockNum
       THEN /\ monPc' = "send"
            /\ newBlockNum' = h
            /\ events' = Append(events, currentBlockNum)
       ELSE UNCHANGED <<monPc, newBlockNum, events>>
    /\ UNCHANGED <<cancelled, exited, fatal, delivered, currentBlockNum,
                   doneChanCloses, newBlockChanCloses, procVars, roundVars, callVars>>

\* one turn of the loop of listenForBlocks taken through the ticker case
MonTick(h) ==
    /\ ~exited
    /\ UNCHANGED <<stepVars, codecVars>>
    /\ monPc = "select"
    /\ Len(polls) < MaxPolls
    /\ polls' = Append(polls, h)
    /\ IF h > currentBlockNum
       THEN /\ monPc' = "send"
            /\ newBlockNum' = h
            /\ events' = Append(events, currentBlockNum)
       ELSE UNCHANGED <<monPc, newBlockNum, events>>
    /\ UNCHANGED <<cancelled, exited, fatal, delivered, currentBlockNum,
                   doneChanCloses, newBlockChanCloses, procVars, roundVars, callVars>>

\* variant: the failure ends the monitoring loop only
MustGetBlockNumFailStopsMonitor ==
    /\ ~exited
    /\ UNCHANGED <<stepVars, codecVars>>
    /\ monPc = "select"
    /\ fatal' = "blocknum"
    /\ monPc' = "done"
    /\ UNCHANGED <<cancelled, exited, delivered, newBlockNum, currentBlockNum, polls, events,
                   doneChanCloses, newBlockChanCloses, procVars, roundVars, callVars>>

\* MustGetBlockNum: the height source fails
MustGetBlockNumFail ==
    /\ ~exited
    /\ UNCHANGED <<stepVars, codecVars>>
    /\ monPc = "select"
    /\ fatal' = "blocknum"
    /\ exited' = TRUE
    /\ UNCHANGED <<cancelled, delivered, monVars, procVars, roundVars, callVars>>

\* l.currentBlockNum = newBlockNum, after the send has completed
MonAssign ==
    /\ ~exited
    /\ UNCHANGED <<stepVars, codecVars>>
    /\ monPc = "assign"
    /\ currentBlockNum' = newBlockNum
    /\ monPc' = "select"
    /\ UNCHANGED <<cancelled, exited, fatal, delivered, newBlockNum, polls, events,
                   doneChanCloses, newBlockChanCloses, procVars, roundVars, callVars>>

\* case <-ctx.Done() of listenForBlocks, with its deferred closes
MonStop ==
    /\ ~exited
    /\ UNCHANGED <<stepVars, codecVars>>
    /\ monPc = "select"
    /\ cancelled
    /\ monPc' = "done"
    /\ newBlockChanCloses' = newBlockChanCloses + 1
    /\ doneChanCloses' = doneChanCloses + 1
    /\ UNCHANGED <<cancelled, exited, fatal, delivered, newBlockNum, currentBlockNum,
                   polls, events, procVars, roundVars, callVars>>

\* -------------------------------------------------------------- processor
\* variant: the processor takes the next event while a round is awaited
ProcessorReceivingDuringRound == procPc \in {"select", "wait"}

\* processNewBlocks sits in its select
ProcessorReceiving == procPc = "select"

\* FacilitateRelayAuction up to its select: NewRelayAuction, StartAsync
StartRound(blk) ==
    /\ currentAuction' = "round"
    /\ liveRounds' = liveRounds + 1
    /\ procPc' = "wait"
    /\ roundBlock' = blk
    /\ roundState' = "open"
    /\ bestBid' = ZeroBid
    /\ accepted' = <<>>
    /\ auctionResultChan' = <<>>
    /\ bid' = ZeroBid
    /\ roundSent' = <<>>
    /\ roundOutcome' = "running"

\* the deferred l.currentAuction = nil and cancel() of FacilitateRelayAuction
ReturnFromRound(outcome) ==
    /\ currentAuction' = "nil"
    /\ liveRounds' = liveRounds - 1
    /\ procPc' = "select"
    /\ roundOutcome' = outcome
    /\ roundState' = "none"
    /\ bestBid' = ZeroBid
    /\ accepted' = <<>>
    /\ auctionResultChan' = <<>>

\* l.NewBlockChan <- ... meets case <-l.NewBlockChan (unbuffered channel)
HandOff ==
    /\ ~exited
    /\ UNCHANGED <<stepVars, codecVars>>
    /\ monPc = "send"
    /\ ProcessorReceiving
    /\ monPc' = "assign"
    /\ delivered' = delivered + 1
    /\ StartRound(events[delivered + 1])
    /\ UNCHANGED <<cancelled, exited, fatal, newBlockNum, currentBlockNum, polls, events,
                   doneChanCloses, newBlockChanCloses, closedRecvs, callVars>>

\* case <-l.NewBlockChan on the closed channel: a receive that yields nil
RecvClosed ==
    /\ ~exited
    /\ UNCHANGED <<stepVars, codecVars>>
    /\ ProcessorReceiving
    /\ newBlockChanCloses > 0
    /\ closedRecvs < MaxClosedRecv
    /\ closedRecvs' = closedRecvs + 1
    /\ StartRound(NoBlock)
    /\ UNCHANGED <<cancelled, exited, fatal, delivered, monVars, callVars>>

\* case <-ctx.Done() of processNewBlocks
ProcStop ==
    /\ ~exited
    /\ UNCHANGED <<stepVars, codecVars>>
    /\ procPc = "select"
    /\ cancelled
    /\ procPc' = "done"
    /\ UNCHANGED <<cancelled, exited, fatal, delivered, monVars, currentAuction,
                   liveRounds, closedRecvs, roundVars, callVars>>

\* the round's deadline elapses: Open -> Closed, the result is emitted
RoundDeadline ==
    /\ ~exited
    /\ UNCHANGED <<stepVars, codecVars>>
    /\ roundState = "open"
    /\ roundState' = "closed"
    /\ auctionResultChan' = <<bestBid>>
    /\ UNCHANGED <<cancelled, exited, fatal, delivered, monVars, procVars, roundBlock,
                   bestBid, accepted, bid, roundSent, roundOutcome, callVars>>

\* variant: the zero address is not checked
IsNoWinnerUnchecked(b) == FALSE

\* bid.Address == zeroAddr
IsNoWinner(b) == b.address = ZeroAddr

\* case bid := <-auctionResultChan
ProcResult ==
    /\ ~exited
    /\ UNCHANGED <<stepVars, codecVars>>
    /\ procPc = "wait"
    /\ auctionResultChan # <<>>
    /\ bid' = Head(auctionResultChan)
    /\ IF IsNoWinner(Head(auctionResultChan))
       THEN /\ ReturnFromRound("nowinner")
            /\ UNCHANGED <<roundBlock, roundSent, closedRecvs>>
       ELSE /\ procPc' = "forward"
            /\ auctionResultChan' = <<>>
            /\ UNCHANGED <<currentAuction, liveRounds, closedRecvs, roundBlock, roundState,
                           bestBid, accepted, roundSent, roundOutcome>>
    /\ UNCHANGED <<cancelled, exited, fatal, delivered, monVars, callVars>>

\* l.AuctionWonChan <- bid is taken by the downstream consumer
ForwardWinner ==
    /\ ~exited
    /\ UNCHANGED <<stepVars, codecVars>>
    /\ procPc = "forward"
    /\ roundSent' = Append(roundSent, bid)
    /\ ReturnFromRound("won")
    /\ UNCHANGED <<cancelled, exited, fatal, delivered, monVars, closedRecvs,
                   roundBlock, bid, callVars>>

\* variant: the watchdog reports the error and returns
WatchdogReturns ==
    /\ ~exited
    /\ UNCHANGED <<stepVars, codecVars>>
    /\ procPc = "wait"
    /\ fatal' = "timeout"
    /\ ReturnFromRound("timeout")
    /\ UNCHANGED <<cancelled, exited, delivered, monVars, closedRecvs,
                   roundBlock, bid, roundSent, callVars>>

\* case <-time.After(auctionPeriod + 1*time.Second)
Watchdog ==
    /\ ~exited
    /\ UNCHANGED <<stepVars, codecVars>>
    /\ procPc = "wait"
    /\ fatal' = "timeout"
    /\ exited' = TRUE
    /\ roundOutcome' = "timeout"
    /\ UNCHANGED <<cancelled, delivered, monVars, procVars, roundBlock, roundState,
                   bestBid, accepted, auctionResultChan, bid, roundSent, callVars>>

\* ---------------------------------------------------------------- callers
\* what Listener.SubmitBid returns
\* (bid.L1Block.Uint64() on a nil *big.Int is a nil pointer dereference)
SubmitBidResult(b) ==
    IF currentAuction = "nil" THEN "NoActiveRound"
    ELSE IF b.l1Block = NilInt THEN "panic"
    ELSE IF Uint64(b.l1Block) # currentBlockNum THEN "WrongBlock"
    ELSE "ok"

\* RelayAuction.SubmitBid: the round accepts the bid or drops it
RoundAccepts(b) == roundState = "open" /\ Verify(b) /\ b.address \in Registry

RoundBest(b) ==
    IF bestBid = ZeroBid \/ b.amountWei > bestBid.amountWei THEN b ELSE bestBid

SubmitBid(b) ==
    /\ ~exited
    /\ UNCHANGED <<stepVars, codecVars>>
    /\ nSubmits < MaxSubmits
    /\ nSubmits' = nSubmits + 1
    /\ IF SubmitBidResult(b) = "ok" /\ RoundAccepts(b)
       THEN /\ accepted' = Append(accepted, b)
            /\ bestBid' = RoundBest(b)
       ELSE UNCHANGED <<accepted, bestBid>>
    /\ lastSubmit' = [bid |-> b, res |-> SubmitBidResult(b),
                      live |-> currentAuction # "nil", state |-> roundState,
                      roundBlock |-> roundBlock, curBlock |-> currentBlockNum,
                      changed |-> bestBid' # bestBid]
    /\ exited' = (SubmitBidResult(b) = "panic")
    /\ fatal' = (IF SubmitBidResult(b) = "panic" THEN "panic" ELSE fatal)
    /\ UNCHANGED <<cancelled, delivered, monVars, procVars, roundBlock,
                   roundState, auctionResultChan, bid, roundSent, roundOutcome>>

\* variant: the round's bid is not looked up
GetCurrentBidEmpty ==
    IF currentAuction = "nil"
    THEN [winningBid |-> ZeroBid, found |-> FALSE]
    ELSE [winningBid |-> ZeroBid, found |-> TRUE]

\* variant: found only when the round holds a bid
GetCurrentBidFoundIfBid ==
    IF currentAuction = "nil"
    THEN [winningBid |-> ZeroBid, found |-> FALSE]
    ELSE [winningBid |-> bestBid, found |-> bestBid # ZeroBid]

\* Listener.GetCurrentBid
GetCurrentBid ==
    IF currentAuction = "nil"
    THEN [winningBid |-> ZeroBid, found |-> FALSE]
    ELSE [winningBid |-> bestBid, found |-> TRUE]

\* the owner cancels the context passed to Start
Cancel ==
    /\ ~exited
    /\ UNCHANGED <<stepVars, codecVars>>
    /\ ~cancelled
    /\ cancelled' = TRUE
    /\ UNCHANGED <<exited, fatal, delivered, monVars, procVars, roundVars, callVars>>

\* ------------------------------------------------------------ specification
PipelineStep ==
    \/ \E h \in Heights : MonTick(h)
    \/ MustGetBlockNumFail
    \/ MonAssign
    \/ MonStop
    \/ HandOff
    \/ RecvClosed
    \/ ProcStop
    \/ RoundDeadline
    \/ ProcResult
    \/ Watchdog

Next ==
    \/ PipelineStep
    \/ ForwardWinner
    \/ \E b \in Bids : SubmitBid(b)
    \/ Cancel

Spec == Init /\ [][Next]_vars

\* the scheduler runs every task that can take a step, the ticker keeps
\* firing, and the downstream consumer keeps receiving from AuctionWonChan
FairSpec ==
    /\ Spec
    /\ WF_vars(\E h \in Heights : MonTick(h))
    /\ WF_vars(MonAssign)
    /\ WF_vars(MonStop)
    /\ WF_vars(HandOff)
    /\ WF_vars(RecvClosed)
    /\ WF_vars(ProcStop)
    /\ WF_vars(RoundDeadline)
    /\ WF_vars(ProcResult)
    /\ WF_vars(ForwardWinner)

\* ------------------------------------------- callers, statement by statement
\* SubmitBid and GetCurrentBid take no lock: the other tasks run between
\* their statements.
RaceBids == {CreateSignedBid(9, h, 1) : h \in Heights} \cup {PartialBid}

SubmitRecord(b, res, changed) ==
    [bid |-> b, res |-> res, live |-> currentAuction # "nil", state |-> roundState,
     roundBlock |-> roundBlock, curBlock |-> currentBlockNum, changed |-> changed]

\* if l.currentAuction == nil { return fmt.Errorf("no auction in progress") }
SubmitBegin(b) ==
    /\ ~exited
    /\ callPc = "idle"
    /\ nSubmits < MaxSubmits
    /\ nSubmits' = nSubmits + 1
    /\ IF currentAuction = "nil"
       THEN /\ lastSubmit' = SubmitRecord(b, "NoActiveRound", FALSE)
            /\ UNCHANGED <<callPc, callBid>>
       ELSE /\ callPc' = "checkBlock"
            /\ callBid' = b
            /\ UNCHANGED lastSubmit
    /\ UNCHANGED <<cancelled, exited, fatal, delivered, monVars, procVars, roundVars,
                   getPc, nilCall, codecVars>>

\* if bid.L1Block.Uint64() != l.currentBlockNum { return ... }
SubmitCheckBlock ==
    /\ ~exited
    /\ callPc = "checkBlock"
    /\ IF callBid.l1Block = NilInt
       THEN /\ exited' = TRUE
            /\ fatal' = "panic"
            /\ lastSubmit' = SubmitRecord(callBid, "panic", FALSE)
            /\ UNCHANGED callPc
       ELSE IF Uint64(callBid.l1Block) # currentBlockNum
       THEN /\ callPc' = "idle"
            /\ lastSubmit' = SubmitRecord(callBid, "WrongBlock", FALSE)
            /\ UNCHANGED <<exited, fatal>>
       ELSE /\ callPc' = "call"
            /\ UNCHANGED <<exited, fatal, lastSubmit>>
    /\ UNCHANGED <<cancelled, delivered, monVars, procVars, roundVars, nSubmits,
                   callBid, getPc, nilCall, codecVars>>

\* l.currentAuction.SubmitBid(bid); return nil
\* (through a nil currentAuction the method either dereferences it and
\* panics, or returns without effect)
SubmitCall ==
    /\ ~exited
    /\ callPc = "call"
    /\ callPc' = "idle"
    /\ IF currentAuction = "nil"
       THEN /\ nilCall' = TRUE
            /\ \E crash \in BOOLEAN :
                  /\ exited' = crash
                  /\ fatal' = (IF crash THEN "panic" ELSE fatal)
                  /\ lastSubmit' = SubmitRecord(callBid, IF crash THEN "panic" ELSE "ok", FALSE)
            /\ UNCHANGED <<accepted, bestBid>>
       ELSE /\ IF RoundAccepts(callBid)
               THEN /\ accepted' = Append(accepted, callBid)
                    /\ bestBid' = RoundBest(callBid)
               ELSE UNCHANGED <<accepted, bestBid>>
            /\ lastSubmit' = SubmitRecord(callBid, "ok", bestBid' # bestBid)
            /\ UNCHANGED <<exited, fatal, nilCall>>
    /\ UNCHANGED <<cancelled, delivered, monVars, procVars, roundBlock, roundState,
                   auctionResultChan, bid, roundSent, roundOutcome, nSubmits,
                   callBid, getPc, codecVars>>

\* if l.currentAuction == nil { return auction.SignedBid{}, false }
GetBegin ==
    /\ ~exited
    /\ getPc = "idle"
    /\ getPc' = (IF currentAuction = "nil" THEN "idle" ELSE "call")
    /\ UNCHANGED <<cancelled, exited, fatal, delivered, monVars, procVars, roundVars,
                   callVars, callPc, callBid, nilCall, codecVars>>

\* return l.currentAuction.GetCurrentBid(), true
GetCall ==
    /\ ~exited
    /\ getPc = "call"
    /\ getPc' = "idle"
    /\ IF currentAuction = "nil"
       THEN /\ nilCall' = TRUE
            /\ \E crash \in BOOLEAN :
                  /\ exited' = crash
                  /\ fatal' = (IF crash THEN "panic" ELSE fatal)
       ELSE UNCHANGED <<exited, fatal, nilCall>>
    /\ UNCHANGED <<cancelled, delivered, monVars, procVars, roundVars,
                   callVars, callPc, callBid, codecVars>>

RaceNext ==
    \/ PipelineStep
    \/ ForwardWinner
    \/ Cancel
    \/ \E b \in RaceBids : SubmitBegin(b)
    \/ SubmitCheckBlock
    \/ SubmitCall
    \/ GetBegin
    \/ GetCall

RaceSpec == Init /\ [][RaceNext]_vars

\* ---------------------------------------------------------------- bid codec
\* the arguments of one application of a codec function
CodecInputs ==
    [op : {"digest"}, a1 : 0..DigestMaxAmount, b1 : 0..DigestMaxBlock,
     a2 : 0..DigestMaxAmount, b2 : 0..DigestMaxBlock]
    \cup [op : {"sign"}, a : 0..DigestMaxAmount, b : 0..DigestMaxBlock, key : 0..MaxKey]
    \cup [op : {"decode"}, wire : Wires]

CodecInit ==
    /\ ListenerInit
    /\ codecPc = "input"
    /\ codecIn \in CodecInputs
    /\ codecOut = NoCodec

\* getDataHash applied to two (amount, block) pairs
Digest ==
    /\ codecPc = "input"
    /\ codecIn.op = "digest"
    /\ codecOut' = [op |-> "digest",
                    h1 |-> getDataHash(codecIn.a1, codecIn.b1),
                    h2 |-> getDataHash(codecIn.a2, codecIn.b2),
                    transplant |-> [CreateSignedBid(codecIn.a1, codecIn.b1, 1)
                                       EXCEPT !.amountWei = codecIn.a2,
                                              !.l1Block = codecIn.b2]]
    /\ codecPc' = "done"
    /\ UNCHANGED <<codecIn, cancelled, exited, fatal, delivered, monVars, procVars,
                   roundVars, callVars, stepVars>>

\* CreateSignedBid, then Verify of its result
SignBid ==
    /\ codecPc = "input"
    /\ codecIn.op = "sign"
    /\ codecOut' =
          IF SignFails(codecIn.key)
          THEN [op |-> "sign", err |-> TRUE, bid |-> ZeroBid, verified |-> FALSE]
          ELSE [op |-> "sign", err |-> FALSE,
                bid |-> CreateSignedBid(codecIn.a, codecIn.b, codecIn.key),
                verified |-> Verify(CreateSignedBid(codecIn.a, codecIn.b, codecIn.key))]
    /\ codecPc' = "done"
    /\ UNCHANGED <<codecIn, cancelled, exited, fatal, delivered, monVars, procVars,
                   roundVars, callVars, stepVars>>

\* DecodeSignedBid applied to a wire record
Decode ==
    /\ codecPc = "input"
    /\ codecIn.op = "decode"
    /\ codecOut' = [op |-> "decode", res |-> DecodeSignedBid(codecIn.wire)]
    /\ codecPc' = "done"
    /\ UNCHANGED <<codecIn, cancelled, exited, fatal, delivered, monVars, procVars,
                   roundVars, callVars, stepVars>>

CodecNext == Digest \/ SignBid \/ Decode

CodecSpec == CodecInit /\ [][CodecNext]_vars

\* ------------------------------------------------------------------ claims
RECURSIVE EventsOfPolls(_)
\* one event per poll that is higher than the poll before it, carrying the
\* height of the poll before it
EventsOfPolls(p) ==
    IF Len(p) < 2 THEN <<>>
    ELSE LET front == SubSeq(p, 1, Len(p) - 1)
         IN  IF p[Len(p)] > p[Len(p) - 1]
             THEN Append(EventsOfPolls(front), p[Len(p) - 1])
             ELSE EventsOfPolls(front)

\* C1: the monitor emits exactly one new-block event for each poll whose
\* height is strictly greater than the height of the previous poll, carrying
\* that previous height, and no other event.
C1_EventPerIncrease == events = EventsOfPolls(polls)

Submitted == lastSubmit.res # "none"

\* C2: while the round started by the event carrying block N is live, a bid
\* whose targetBlock is not N is rejected as wrong-block and leaves bestBid
\* unchanged, and a bid for block N is not rejected as wrong-block.
C2_RoundScopedToEventBlock ==
    (Submitted /\ lastSubmit.live /\ lastSubmit.roundBlock # NoBlock) =>
        IF lastSubmit.bid.l1Block # lastSubmit.roundBlock
        THEN lastSubmit.res = "WrongBlock" /\ ~lastSubmit.changed
        ELSE lastSubmit.res # "WrongBlock"

\* C3: at most one round is live at any time; it is the one currentAuction
\* refers to and the one the processor is inside of; an event put up while a
\* round is live stays pending, and the live round belongs to the last event
\* handed off.
C3_OneLiveRound ==
    /\ liveRounds <= 1
    /\ (liveRounds = 1) = (currentAuction = "round")
    /\ (liveRounds = 1) = (procPc \in {"wait", "forward"})
    /\ Len(events) - delivered = (IF monPc = "send" THEN 1 ELSE 0)
    /\ (liveRounds = 1 /\ roundBlock # NoBlock) => roundBlock = events[delivered]

C3_Witness == liveRounds = 1 /\ monPc = "send" /\ delivered = 1 /\ Len(events) = 2

\* C4: for every round at most one bid is sent on AuctionWonChan; a round that
\* returns with a genuine winner has sent exactly its result; a round that
\* ends with the no-winner sentinel or by the watchdog has sent nothing.
C4_ForwardedOnce ==
    /\ Len(roundSent) <= 1
    /\ roundOutcome = "won" => (roundSent = <<bid>> /\ bid.address # ZeroAddr)
    /\ roundOutcome = "nowinner" => (roundSent = <<>> /\ bid.address = ZeroAddr)
    /\ roundOutcome \in {"none", "running", "timeout"} => roundSent = <<>>

C4_Witness == roundOutcome = "won" /\ roundSent = <<bid>> /\ bid \in Bids

\* C5: once a round has closed, every later SubmitBid call is rejected with
\* the no-active-round error, also while the winner is being forwarded.
C5_ClosedRoundRejects ==
    (Submitted /\ lastSubmit.state = "closed") => lastSubmit.res = "NoActiveRound"

\* C6: a bid for the right block submitted to an open round is answered with
\* BadSignature when its signature does not recover its declared bidder, and
\* with NotEligible when its bidder is not in the registry.
C6_RejectionReported ==
    (/\ Submitted
     /\ lastSubmit.live
     /\ lastSubmit.state = "open"
     /\ lastSubmit.bid.l1Block = lastSubmit.roundBlock
     /\ lastSubmit.bid.l1Block = lastSubmit.curBlock) =>
        /\ ~Verify(lastSubmit.bid) => lastSubmit.res = "BadSignature"
        /\ (Verify(lastSubmit.bid) /\ lastSubmit.bid.address \notin Registry)
               => lastSubmit.res = "NotEligible"

Stopped ==
    /\ monPc = "done"
    /\ procPc = "done"
    /\ doneChanCloses = 1
    /\ newBlockChanCloses = 1

\* C7: after the context is cancelled the pipeline eventually stops: both
\* loops have ended and DoneChan and NewBlockChan are closed exactly once.
C7_CancelStops == cancelled ~> (Stopped \/ exited)

FirstMax(s) ==
    s[CHOOSE i \in 1..Len(s) :
        /\ \A j \in 1..Len(s) : s[j].amountWei <= s[i].amountWei
        /\ \A j \in 1..(i - 1) : s[j].amountWei < s[i].amountWei]

C11_DigestInjective ==
    (codecOut.op = "digest" /\ <<codecIn.a1, codecIn.b1>> # <<codecIn.a2, codecIn.b2>>) =>
        (codecOut.h1 # codecOut.h2 /\ ~Verify(codecOut.transplant))

\* C12: whenever signing succeeds, the bid CreateSignedBid returns verifies
\* and its address is the address of the signing key.
C12_SignThenVerify ==
    (codecOut.op = "sign" /\ ~codecOut.err) =>
        (codecOut.verified /\ codecOut.bid.address = PubkeyToAddress(codecIn.key))

C12_Witness ==
    /\ codecOut.op = "sign"
    /\ ~codecOut.err
    /\ codecIn.a = 12
    /\ codecIn.b = 3
    /\ codecOut.bid.signature.hash = <<1, 2, 3>>

\* a wire record that strict decoding has to refuse
WireDefective(w) ==
    \/ \E f \in {w.amountWei, w.l1Block, w.address, w.signature} : f.kind = "missing"
    \/ \E f \in {w.amountWei, w.l1Block} : f.kind = "bad" \/ (f.kind = "num" /\ f.v < 0)
    \/ (w.address.kind = "hex" /\ w.address.len # AddressLength)
    \/ (w.signature.kind = "hex" /\ w.signature.len # SignatureLength)

\* C13: DecodeSignedBid returns an error whenever a field is missing, a
\* numeric field is not a non-negative integer, or the signature or the
\* address has not exactly the expected length.
C13_DecodeStrict ==
    (codecOut.op = "decode" /\ WireDefective(codecIn.wire)) => codecOut.res.err

\* C14: no bid that DecodeSignedBid can return crashes the coordinator:
\* SubmitBid returns normally, with success or with an error.
C14_SubmitReturns ==
    /\ Submitted => lastSubmit.res \in {"ok", "NoActiveRound", "WrongBlock"}
    /\ fatal # "panic"

\* C17: the bids one round receives all carry the same targetBlock (stated
\* for the blocks in range; C19 is about the others).
C17_OneBlockPerRound ==
    \A i, j \in 1..Len(accepted) :
        (accepted[i].l1Block \in Heights /\ accepted[j].l1Block \in Heights)
            => accepted[i].l1Block = accepted[j].l1Block

\* C19: a bid is passed to the round only if its targetBlock, as an unbounded
\* integer, equals currentBlockNum.
C19_ExactBlockCheck ==
    (Submitted /\ lastSubmit.res = "ok") => lastSubmit.bid.l1Block = lastSubmit.curBlock

\* every receive of processNewBlocks calls FacilitateRelayAuction
RoundsStarted == delivered + closedRecvs

\* C16: the number of rounds started never exceeds the number of new-block
\* events the monitor has sent, also after NewBlockChan has been closed.
C16_RoundPerEvent == RoundsStarted <= Len(events)

C20_FoundIffLive ==
    /\ GetCurrentBid.found = (liveRounds = 1)
    /\ GetCurrentBid.found = (currentAuction # "nil")
    /\ GetCurrentBid.found => GetCurrentBid.winningBid = bestBid
    /\ (GetCurrentBid.found /\ accepted = <<>>) => GetCurrentBid.winningBid = ZeroBid
    /\ ~GetCurrentBid.found => GetCurrentBid.winningBid = ZeroBid

C20_Witness ==
    /\ liveRounds = 1
    /\ roundState = "open"
    /\ accepted = <<>>
    /\ nSubmits > 0
    /\ GetCurrentBid.found
    /\ GetCurrentBid.winningBid = ZeroBid

\* C15: between the check that currentAuction is not nil and the use of the
\* round the orchestrator never clears currentAuction, so SubmitBid and
\* GetCurrentBid never call a method through a nil currentAuction.
C15_CallersSafe ==
    /\ (callPc = "call" \/ getPc = "call") => currentAuction # "nil"
    /\ ~nilCall

====
